---- MODULE Spec2Model ----
(***************************************************************************)
(* A model of src/app.py of XmlToExcelMerch: the text normalisation        *)
(* clean_text (term substitution, whitespace normalisation, casing) and    *)
(* the per-file loop of convert_xmls_to_excel.                             *)
(*                                                                         *)
(* A Python str is a sequence of characters.  A character is a TLA+ string *)
(* naming it: "a", "A", "1", "/", "_", " " stand for themselves, and       *)
(*   "TAB" U+0009   "NL" U+000A   "BEL" U+0007   "BSP" U+0008              *)
(*   "BS"  U+005C (the backslash)   "PM" U+00B1 (the plus-minus sign).     *)
(***************************************************************************)
EXTENDS Naturals, Sequences, FiniteSets

(***************************************************************************)
(* Characters: Python's str predicates and the classes of the re module.   *)
(***************************************************************************)
LowerLetters == {"a", "b"}

UpperLetters == {"A", "B"}

DigitChars == {"1"}

SpaceChars == {" ", "TAB", "NL"}

OtherChars == {"_", "/", "BS", "PM", "BEL", "BSP"}

Char == LowerLetters \cup UpperLetters \cup DigitChars \cup SpaceChars \cup OtherChars

\* str.upper() of one character
ToUpper(c) == CASE c = "a" -> "A" [] c = "b" -> "B" [] OTHER -> c

\* str.lower() of one character; re.IGNORECASE compares characters by it
ToLower(c) == CASE c = "A" -> "a" [] c = "B" -> "b" [] OTHER -> c

\* str.isalnum() of one character: a letter or a digit ("_" is not)
IsAlnum(c) == c \in LowerLetters \cup UpperLetters \cup DigitChars

\* the class \w of re: letters, digits and the underscore
IsWordChar(c) == IsAlnum(c) \/ c = "_"

\* A whitespace class of the blank alone, which leaves tabs and newlines
BlankOnly(c) == c = " "

\* the class \s of re, which is also what str.split() and str.strip() cut at
IsSpace(c) == c \in SpaceChars

\* str.lower() and str.upper() of a string
LowerStr(w) == [i \in 1..Len(w) |-> ToLower(w[i])]

UpperStr(w) == [i \in 1..Len(w) |-> ToUpper(w[i])]

\* str.isupper(): at least one cased character and no lower-case one
IsUpperStr(w) ==
    /\ \E i \in 1..Len(w) : w[i] \in UpperLetters
    /\ \A i \in 1..Len(w) : w[i] \notin LowerLetters

\* str.endswith(' ')
EndsWithSpace(r) == Len(r) > 0 /\ r[Len(r)] = " "

(***************************************************************************)
(* sorted(replacements.keys(), key=len, reverse=True): Python's sort is    *)
(* stable, and with reverse=True keys of equal length keep the order in    *)
(* which the dict holds them, which is the order of insertion.             *)
(***************************************************************************)
Keys(replacements) == [i \in 1..Len(replacements) |-> replacements[i].term]

RECURSIVE ByLengthFrom(_, _)
ByLengthFrom(keys, n) ==
    IF n = 0 THEN << >>
    ELSE SelectSeq(keys, LAMBDA k : Len(k) = n) \o ByLengthFrom(keys, n - 1)

MaxKeyLen(keys) ==
    IF keys = << >> THEN 0
    ELSE CHOOSE n \in {Len(keys[i]) : i \in 1..Len(keys)} :
             \A i \in 1..Len(keys) : Len(keys[i]) <= n

SortedTerms(replacements) ==
    ByLengthFrom(Keys(replacements), MaxKeyLen(Keys(replacements)))

\* replacements[term] (never None here: the values of the dict are str)
Lookup(replacements, term) ==
    LET i == CHOOSE j \in 1..Len(replacements) : replacements[j].term = term
    IN  replacements[i].repl

(***************************************************************************)
(* The patterns.  re.escape makes the term a literal; with re.IGNORECASE a *)
(* literal matches at p when the characters agree up to letter case.       *)
(***************************************************************************)
LiteralAt(string, term, p) ==
    /\ p + Len(term) - 1 <= Len(string)
    /\ \A k \in 1..Len(term) : ToLower(string[p + k - 1]) = ToLower(term[k])

\* \b before index p (p = Len(string) + 1 is the end of the string): exactly
\* one of the characters on its two sides is a \w character
Boundary(string, p) ==
    (p > 1 /\ IsWordChar(string[p - 1])) # (p <= Len(string) /\ IsWordChar(string[p]))

\* re.fullmatch(r'\w+', term)
IsWordTerm(term) == Len(term) > 0 /\ \A k \in 1..Len(term) : IsWordChar(term[k])

\* The pattern without its closing \b, which also matches the head of a word
HeadPatternAt(string, term, p) ==
    /\ Boundary(string, p)
    /\ LiteralAt(string, term, p)

\* r'\b' + re.escape(term) + r'\b' matches at p
WordPatternAt(string, term, p) ==
    /\ Boundary(string, p)
    /\ LiteralAt(string, term, p)
    /\ Boundary(string, p + Len(term))

(***************************************************************************)
(* The replacement template of re.sub(pattern, repl, s) with a str repl.   *)
(* A repl without a backslash is literal.  Otherwise the template is       *)
(* parsed before the scan starts: "\\" followed by a backslash is one      *)
(* backslash, by "a" or "b" the control character (BEL, BSP), by another   *)
(* letter or at the end of the string an error (bad escape), by a digit a  *)
(* group reference, an error as the pattern has no group, and by any other *)
(* character the two characters themselves.                                *)
(* (A template of at least four characters can also hold an octal escape   *)
(* such as \111; the replacements here are shorter.)                       *)
(***************************************************************************)
RECURSIVE TemplateBad(_)
TemplateBad(repl) ==
    IF repl = << >> THEN FALSE
    ELSE IF Head(repl) # "BS" THEN TemplateBad(Tail(repl))
    ELSE IF Len(repl) = 1 THEN TRUE
    ELSE IF repl[2] \in UpperLetters \cup DigitChars THEN TRUE
    ELSE TemplateBad(SubSeq(repl, 3, Len(repl)))

RECURSIVE ExpandTemplate(_)
ExpandTemplate(repl) ==
    IF repl = << >> THEN << >>
    ELSE IF Head(repl) # "BS" THEN <<Head(repl)>> \o ExpandTemplate(Tail(repl))
    ELSE IF Len(repl) = 1 THEN << >>
    ELSE LET c == repl[2]
             rest == ExpandTemplate(SubSeq(repl, 3, Len(repl)))
         IN  CASE c = "BS" -> <<"BS">> \o rest
               [] c = "a" -> <<"BEL">> \o rest
               [] c = "b" -> <<"BSP">> \o rest
               [] OTHER -> <<"BS", c>> \o rest

(***************************************************************************)
(* re.sub: the scan goes left to right from p; where the pattern matches,  *)
(* the replacement is emitted and the scan resumes after the match; where  *)
(* it does not, the character is copied.  Terms are not empty.             *)
(***************************************************************************)
RECURSIVE ScanWord(_, _, _, _)
ScanWord(string, term, out, p) ==
    IF p > Len(string) THEN << >>
    ELSE IF WordPatternAt(string, term, p)
         THEN out \o ScanWord(string, term, out, p + Len(term))
         ELSE <<string[p]>> \o ScanWord(string, term, out, p + 1)

\* re.sub(r'\b' + re.escape(term) + r'\b', repl, s, flags=re.IGNORECASE)
SubWord(string, term, repl) == ScanWord(string, term, ExpandTemplate(repl), 1)

\* A replacement callback that returns repl as given, never adding a space
ReplAsGiven(string, term, repl, p) == repl

\* _repl_nonword(m), m the match of term at p: after_idx is p + Len(term)
ReplNonword(string, term, repl, p) ==
    LET after_idx == p + Len(term)
        add_space == after_idx <= Len(string) /\ IsAlnum(string[after_idx])
    IN  repl \o (IF add_space /\ ~EndsWithSpace(repl) THEN <<" ">> ELSE << >>)

RECURSIVE ScanNonword(_, _, _, _)
ScanNonword(string, term, repl, p) ==
    IF p > Len(string) THEN << >>
    ELSE IF LiteralAt(string, term, p)
         THEN ReplNonword(string, term, repl, p)
                  \o ScanNonword(string, term, repl, p + Len(term))
         ELSE <<string[p]>> \o ScanNonword(string, term, repl, p + 1)

\* re.sub(re.escape(term), _repl_nonword, s, flags=re.IGNORECASE)
SubNonword(string, term, repl) == ScanNonword(string, term, repl, 1)

(***************************************************************************)
(* re.sub(r'\s+', ' ', s).strip()                                          *)
(***************************************************************************)
RECURSIVE CollapseFrom(_, _)
CollapseFrom(s, p) ==
    IF p > Len(s) THEN << >>
    ELSE IF IsSpace(s[p])
         THEN IF p > 1 /\ IsSpace(s[p - 1]) THEN CollapseFrom(s, p + 1)
              ELSE <<" ">> \o CollapseFrom(s, p + 1)
         ELSE <<s[p]>> \o CollapseFrom(s, p + 1)

RECURSIVE LStrip(_)
LStrip(s) == IF s # << >> /\ IsSpace(Head(s)) THEN LStrip(Tail(s)) ELSE s

RECURSIVE RStrip(_)
RStrip(s) ==
    IF s # << >> /\ IsSpace(s[Len(s)]) THEN RStrip(SubSeq(s, 1, Len(s) - 1)) ELSE s

Strip(s) == RStrip(LStrip(s))

NormalizeSpaces(s) == Strip(CollapseFrom(s, 1))

(***************************************************************************)
(* s.split(), " ".join(new_words) and the casing of lines 86-96.           *)
(***************************************************************************)
RECURSIVE SplitFrom(_, _, _)
SplitFrom(s, p, word) ==
    IF p > Len(s) THEN (IF word = << >> THEN << >> ELSE <<word>>)
    ELSE IF IsSpace(s[p])
         THEN (IF word = << >> THEN << >> ELSE <<word>>) \o SplitFrom(s, p + 1, << >>)
         ELSE SplitFrom(s, p + 1, Append(word, s[p]))

Split(s) == SplitFrom(s, 1, << >>)

\* "".join(ws), the words run together
RECURSIVE JoinUnspaced(_)
JoinUnspaced(ws) ==
    IF ws = << >> THEN << >> ELSE Head(ws) \o JoinUnspaced(Tail(ws))

\* " ".join(ws)
RECURSIVE Join(_)
Join(ws) ==
    IF ws = << >> THEN << >>
    ELSE IF Len(ws) = 1 THEN ws[1]
    ELSE ws[1] \o <<" ">> \o Join(Tail(ws))

\* w.lower() for every word, the acronyms included
LowerAlways(w) == LowerStr(w)

\* w if w.isupper() else w.lower()
KeepOrLower(w) == IF IsUpperStr(w) THEN w ELSE LowerStr(w)

NewWords(ws) == [i \in 1..Len(ws) |-> KeepOrLower(ws[i])]

\* s[0].upper() + s[1:] if len(s) > 1 else s.upper()
CapitalizeFirst(s) ==
    IF Len(s) > 1 THEN <<ToUpper(s[1])>> \o Tail(s) ELSE UpperStr(s)

\* The body of the for loop without its effect on a bad template: the
\* branch on re.fullmatch(r'\w+', term) and the re.sub of either branch
Substitute(string, term, repl) ==
    IF IsWordTerm(term) THEN SubWord(string, term, repl)
    ELSE SubNonword(string, term, repl)

\* The turn of the loop for (term, repl) raises re.error
TurnRaises(term, repl) == IsWordTerm(term) /\ TemplateBad(repl)

(***************************************************************************)
(* clean_text(text, replacements) as a state machine.  replacements is the *)
(* dict as the sequence of its items in insertion order (the keys are      *)
(* distinct and not empty, the values are str: load_replacements_from_excel*)
(* builds it with astype(str)).  The locals s, term, repl and words are    *)
(* variables; string is the subject of the latest re.sub call (m.string of *)
(* the callback); ret is the returned value once pc = "done"; a re.error   *)
(* leaving clean_text is pc = "raised".  pc = "idle" when no call runs.    *)
(***************************************************************************)
VARIABLES text, replacements, pc, s, sorted_terms, idx, term, repl, string, words, ret

cleanVars == <<text, replacements, pc, s, sorted_terms, idx, term, repl, string, words, ret>>

(***************************************************************************)
(* convert_xmls_to_excel(uploaded_files, replacements) as a state machine: *)
(* i counts the files the loop has taken, all_data holds the rows, warned  *)
(* and failed hold the names given to st.warning and st.error, progress    *)
(* the values given to progress_bar.progress, df the table once built.     *)
(***************************************************************************)
VARIABLES uploaded_files, rules, fpc, i, all_data, warned, failed, progress, df

fileVars == <<uploaded_files, rules, fpc, i, all_data, warned, failed, progress, df>>

vars == <<cleanVars, fileVars>>

\* All sequences over the alphabet A of length at most n
SeqsUpTo(A, n) == UNION {[1..k -> A] : k \in 0..n}

\* The dicts of at most maxRules items whose keys come from Terms
Rulesets(Terms, Repls, maxRules) ==
    {r \in SeqsUpTo([term : Terms, repl : Repls], maxRules) :
        \A j, k \in 1..Len(r) : j # k => r[j].term # r[k].term}

\* The state at the call clean_text(t, r)
Call(t, r) ==
    /\ text = t
    /\ replacements = r
    /\ pc = "start"
    /\ s = << >>
    /\ sorted_terms = << >>
    /\ idx = 0
    /\ term = << >>
    /\ repl = << >>
    /\ string = << >>
    /\ words = << >>
    /\ ret = << >>

\* No call of clean_text is under way
NoCall ==
    /\ text = << >>
    /\ replacements = << >>
    /\ pc = "idle"
    /\ s = << >>
    /\ sorted_terms = << >>
    /\ idx = 0
    /\ term = << >>
    /\ repl = << >>
    /\ string = << >>
    /\ words = << >>
    /\ ret = << >>

\* if not text: return text
ReturnEmptyText ==
    /\ pc = "start"
    /\ text = << >>
    /\ ret' = text
    /\ pc' = "done"
    /\ UNCHANGED <<text, replacements, s, sorted_terms, idx, term, repl, string, words>>
    /\ UNCHANGED fileVars

\* s = text; sorted_terms = sorted(replacements.keys(), key=len, reverse=True)
SortTerms ==
    /\ pc = "start"
    /\ text # << >>
    /\ s' = text
    /\ sorted_terms' = SortedTerms(replacements)
    /\ idx' = 1
    /\ pc' = "loop"
    /\ UNCHANGED <<text, replacements, term, repl, string, words, ret>>
    /\ UNCHANGED fileVars

\* One turn of the for loop.  re.sub parses a str template before it scans,
\* so a bad template raises whether or not the term occurs in s.
SubstituteTerm ==
    /\ pc = "loop"
    /\ idx <= Len(sorted_terms)
    /\ term' = sorted_terms[idx]
    /\ repl' = Lookup(replacements, sorted_terms[idx])
    /\ string' = s
    /\ IF TurnRaises(term', repl')
       THEN pc' = "raised" /\ UNCHANGED <<s, idx>>
       ELSE /\ s' = Substitute(s, term', repl')
            /\ idx' = idx + 1
            /\ pc' = "loop"
    /\ UNCHANGED <<text, replacements, sorted_terms, words, ret>>
    /\ UNCHANGED fileVars

\* After the loop: s = re.sub(r'\s+', ' ', s).strip(); if not s: return s
NormalizeWhitespace ==
    /\ pc = "loop"
    /\ idx > Len(sorted_terms)
    /\ s' = NormalizeSpaces(s)
    /\ IF s' = << >>
       THEN ret' = s' /\ pc' = "done"
       ELSE ret' = ret /\ pc' = "case"
    /\ UNCHANGED <<text, replacements, sorted_terms, idx, term, repl, string, words>>
    /\ UNCHANGED fileVars

\* words = s.split(); the casing of each word and of s[0]; return s
ApplyCasing ==
    /\ pc = "case"
    /\ words' = Split(s)
    /\ s' = CapitalizeFirst(Join(NewWords(words')))
    /\ ret' = s'
    /\ pc' = "done"
    /\ UNCHANGED <<text, replacements, sorted_terms, idx, term, repl, string>>
    /\ UNCHANGED fileVars

Next ==
    \/ ReturnEmptyText
    \/ SortTerms
    \/ SubstituteTerm
    \/ NormalizeWhitespace
    \/ ApplyCasing

(***************************************************************************)
(* clean_text as a function of its arguments, for the callers that apply   *)
(* it to a value: the same steps, composed.                                *)
(***************************************************************************)
RECURSIVE SubstituteAll(_, _, _)
SubstituteAll(str, r, terms) ==
    IF terms = << >> THEN str
    ELSE SubstituteAll(Substitute(str, Head(terms), Lookup(r, Head(terms))), r, Tail(terms))

\* clean_text(t, r) raises re.error
CleanTextRaises(t, r) ==
    /\ t # << >>
    /\ \E j \in 1..Len(r) : TurnRaises(r[j].term, r[j].repl)

\* The value clean_text(t, r) returns when it does not raise
CleanText(t, r) ==
    IF t = << >> THEN t
    ELSE LET spaced == NormalizeSpaces(SubstituteAll(t, r, SortedTerms(r)))
         IN  IF spaced = << >> THEN spaced
             ELSE CapitalizeFirst(Join(NewWords(Split(spaced))))

(***************************************************************************)
(* The calls checked.  Each specification starts clean_text on every text  *)
(* and every dict of its bounded sets; convert_xmls_to_excel is not        *)
(* running.                                                                *)
(***************************************************************************)
NoConversion ==
    /\ uploaded_files = << >>
    /\ rules = << >>
    /\ fpc = "idle"
    /\ i = 0
    /\ all_data = << >>
    /\ warned = << >>
    /\ failed = << >>
    /\ progress = << >>
    /\ df = << >>

Calls(Texts, Dicts) ==
    /\ \E t \in Texts : \E r \in Dicts : Call(t, r)
    /\ NoConversion

MaxTextLen == 3

MaxTermLen == 2

MaxReplLen == 1

MaxRules == 2

TextChars == {"a", "/", " "}

TermChars == {"a", "/"}

ReplChars == {"a", "BS"}

Init ==
    Calls(SeqsUpTo(TextChars, MaxTextLen),
          Rulesets(SeqsUpTo(TermChars, MaxTermLen) \ {<< >>},
                   SeqsUpTo(ReplChars, MaxReplLen), MaxRules))

Spec == Init /\ [][Next]_vars

(***************************************************************************)
(* Vocabulary of the properties.                                           *)
(***************************************************************************)
\* needle occurs in hay as a contiguous run
Contains(hay, needle) ==
    \E p \in 1..(Len(hay) + 1) :
        /\ p + Len(needle) - 1 <= Len(hay)
        /\ \A k \in 1..Len(needle) : hay[p + k - 1] = needle[k]

\* The rule's pattern matches somewhere in str
Occurs(str, trm) ==
    \E p \in 1..Len(str) :
        IF IsWordTerm(trm) THEN WordPatternAt(str, trm, p) ELSE LiteralAt(str, trm, p)

HasBackslash(r) == \E k \in 1..Len(r) : r[k] = "BS"

IsLetter(c) == c \in LowerLetters \cup UpperLetters

\* The orders in which the items of the dict r can have been inserted
Reorderings(r) ==
    {[k \in 1..Len(r) |-> r[f[k]]] :
        f \in {g \in [1..Len(r) -> 1..Len(r)] : \A x, y \in 1..Len(r) : x # y => g[x] # g[y]}}

\* Letters compared ignoring case
FoldChar(c) == CASE c = "A" -> "a" [] c = "B" -> "b" [] OTHER -> c

Fold(str) == [k \in 1..Len(str) |-> FoldChar(str[k])]

\* str with each whitespace run collapsed to one space and the ends trimmed
RECURSIVE DropSpaces(_)
DropSpaces(str) ==
    IF str # << >> /\ Head(str) \in SpaceChars THEN DropSpaces(Tail(str)) ELSE str

RECURSIVE Squeezed(_)
Squeezed(str) ==
    IF str = << >> THEN << >>
    ELSE IF Head(str) \in SpaceChars
         THEN (IF DropSpaces(str) = << >> THEN << >> ELSE <<" ">> \o Squeezed(DropSpaces(str)))
         ELSE <<Head(str)>> \o Squeezed(Tail(str))

Collapsed(str) == Squeezed(DropSpaces(str))

(***************************************************************************)
(* C1.  Longest-match precedence: when the dict holds a longer term and a  *)
(* shorter term that occurs inside it, and the longer term matches in the  *)
(* text, the returned string holds the longer term's replacement (letters  *)
(* compared ignoring case, whitespace collapsed): the shorter term's rule  *)
(* has not been applied to any part of it.                                 *)
(***************************************************************************)
C1_LongerRuleAlone ==
    (pc = "done" /\ Len(replacements) = 2) =>
        \A j, k \in 1..2 :
            LET long == replacements[j]
                short == replacements[k]
            IN  ( /\ Len(short.term) < Len(long.term)
                  /\ Contains(Fold(long.term), Fold(short.term))
                  /\ Occurs(text, long.term)
                  /\ ~HasBackslash(long.repl) )
                => Contains(Fold(ret), Fold(Collapsed(long.repl)))

(***************************************************************************)
(* C7.  clean_text never raises, and a replacement value is put into the   *)
(* text as its literal characters: after a turn of the loop, s is the      *)
(* subject with every match replaced by repl itself.                       *)
(***************************************************************************)
LiteralSubstitute(str, trm, rpl) ==
    IF IsWordTerm(trm) THEN ScanWord(str, trm, rpl, 1) ELSE SubNonword(str, trm, rpl)

C7_NeverRaisesAndLiteral ==
    /\ pc # "raised"
    /\ (pc = "loop" /\ idx > 1) => s = LiteralSubstitute(string, term, repl)

(***************************************************************************)
(* C8.  The returned string depends on the text and on the (term,          *)
(* replacement) pairs only: the same pairs inserted in any other order     *)
(* give the same string.                                                   *)
(***************************************************************************)
C8_OrderIndependent ==
    pc = "done" =>
        \A r2 \in Reorderings(replacements) :
            ~CleanTextRaises(text, r2) /\ CleanText(text, r2) = ret

(***************************************************************************)
(* C9.  Sentence case: in the returned string the first alphabetic         *)
(* character is upper-case, and every other alphanumeric character is      *)
(* lower-case unless it is in a word kept as an acronym (a word with no    *)
(* lower-case letter).                                                     *)
(***************************************************************************)
FirstLetterAt(str, p) ==
    IsLetter(str[p]) /\ \A q \in 1..(p - 1) : ~IsLetter(str[q])

\* The whitespace-delimited word of str around index p has no lower-case letter
InUpperWord(str, p) ==
    \A q \in 1..Len(str) :
        (\A m \in 1..Len(str) : ((q <= m /\ m <= p) \/ (p <= m /\ m <= q)) => str[m] \notin SpaceChars)
            => str[q] \notin LowerLetters

C9_SentenceCase ==
    pc = "done" =>
        \A p \in 1..Len(ret) :
            /\ FirstLetterAt(ret, p) => ret[p] \in UpperLetters
            /\ (IsAlnum(ret[p]) /\ ~FirstLetterAt(ret, p)) =>
                   (ret[p] \notin UpperLetters \/ InUpperWord(ret, p))

\* The function CleanText is what the state machine computes
CleanTextIsTheMachine ==
    /\ pc = "done" => (~CleanTextRaises(text, replacements) /\ ret = CleanText(text, replacements))
    /\ pc = "raised" => CleanTextRaises(text, replacements)

(***************************************************************************)
(* SpecWord: calls whose dict holds \w+ terms only, on texts with letters  *)
(* of both cases, the underscore and the space.                            *)
(***************************************************************************)
WordTextLen == 4

WordTermLen == 2

WordReplLen == 1

WordRules == 1

WordTextChars == {"a", "A", "_", " "}

WordTermChars == {"a"}

WordReplChars == {"b"}

InitWord ==
    Calls(SeqsUpTo(WordTextChars, WordTextLen),
          Rulesets(SeqsUpTo(WordTermChars, WordTermLen) \ {<< >>},
                   SeqsUpTo(WordReplChars, WordReplLen), WordRules))

SpecWord == InitWord /\ [][Next]_vars

(***************************************************************************)
(* SpecSymbol: calls whose dict holds terms with a non-\w character only.  *)
(* A replacement is some characters, with or without a space at its end.   *)
(***************************************************************************)
SymTextLen == 4

SymTermLen == 2

SymReplLen == 1

SymRules == 1

SymTextChars == {"a", "/", "_"}

SymTermChars == {"a", "/"}

SymReplChars == {"b"}

SymRepls ==
    {body \o end : body \in SeqsUpTo(SymReplChars, SymReplLen), end \in {<< >>, <<" ">>}}

InitSymbol ==
    Calls(SeqsUpTo(SymTextChars, SymTextLen),
          Rulesets({k \in SeqsUpTo(SymTermChars, SymTermLen) : k # << >> /\ ~IsWordTerm(k)},
                   SymRepls, SymRules))

SpecSymbol == InitSymbol /\ [][Next]_vars

(***************************************************************************)
(* C2.  Word-boundary safety.  A turn of the loop with a term of letters,  *)
(* digits and underscores rewrites exactly the maximal runs of such        *)
(* characters that are the term up to letter case: s is the subject with   *)
(* those runs replaced and every other run, a longer token that holds the  *)
(* term included, left as it was.  With that rule alone the returned       *)
(* string is this text up to whitespace and letter case.                   *)
(***************************************************************************)
WordClass == LowerLetters \cup UpperLetters \cup DigitChars \cup {"_"}

\* str cut into its maximal runs of word characters and of other characters
RECURSIVE RunsFrom(_, _, _)
RunsFrom(str, p, cur) ==
    IF p > Len(str) THEN (IF cur = << >> THEN << >> ELSE <<cur>>)
    ELSE IF cur # << >> /\ ((str[p] \in WordClass) # (cur[1] \in WordClass))
         THEN <<cur>> \o RunsFrom(str, p + 1, <<str[p]>>)
         ELSE RunsFrom(str, p + 1, Append(cur, str[p]))

RECURSIVE Flatten(_)
Flatten(ss) == IF ss = << >> THEN << >> ELSE Head(ss) \o Flatten(Tail(ss))

WholeTokensReplaced(str, trm, rpl) ==
    LET runs == RunsFrom(str, 1, << >>)
    IN  Flatten([k \in 1..Len(runs) |->
                    IF Fold(runs[k]) = Fold(trm) THEN rpl ELSE runs[k]])

C2_WordBoundary ==
    /\ (pc = "loop" /\ idx > 1 /\ IsWordTerm(term) /\ ~HasBackslash(repl)) =>
           s = WholeTokensReplaced(string, term, repl)
    /\ ( /\ pc = "done"
         /\ Len(replacements) = 1
         /\ IsWordTerm(replacements[1].term)
         /\ ~HasBackslash(replacements[1].repl) ) =>
           Fold(ret) = Fold(Collapsed(
               WholeTokensReplaced(text, replacements[1].term, replacements[1].repl)))

\* The term occurs at p inside a longer token
InsideToken(str, trm, p) ==
    /\ LiteralAt(str, trm, p)
    /\ \/ (p > 1 /\ str[p - 1] \in WordClass)
       \/ (p + Len(trm) <= Len(str) /\ str[p + Len(trm)] \in WordClass)

\* The term occurs at p as a token of its own
AsToken(str, trm, p) ==
    /\ LiteralAt(str, trm, p)
    /\ (p = 1 \/ str[p - 1] \notin WordClass)
    /\ (p + Len(trm) > Len(str) \/ str[p + Len(trm)] \notin WordClass)

\* A turn has rewritten a text that holds the term inside a longer token and
\* the term of the other letter case as a token of its own
C2_Witness ==
    /\ pc = "loop" /\ idx > 1 /\ IsWordTerm(term)
    /\ \E p \in 1..Len(string) : InsideToken(string, term, p)
    /\ \E p \in 1..Len(string) :
           AsToken(string, term, p) /\ SubSeq(string, p, p + Len(term) - 1) # term
    /\ s # string

(***************************************************************************)
(* C3.  Symbol-term spacing.  After a turn of the loop with a term that    *)
(* holds a non-word character, every match in the subject has the          *)
(* replacement at its place in s; when the character after the match is    *)
(* alphanumeric, what that character has become in s (itself, or the       *)
(* replacement of the next match when it starts one) follows the           *)
(* replacement directly if the replacement ends in a space, and after      *)
(* exactly one inserted space otherwise: the replacement never touches the *)
(* following token.                                                        *)
(***************************************************************************)
AlnumClass == LowerLetters \cup UpperLetters \cup DigitChars

\* The starts of the matches of the literal trm in str, leftmost first
RECURSIVE MatchesFrom(_, _, _)
MatchesFrom(str, trm, p) ==
    IF p > Len(str) THEN << >>
    ELSE IF LiteralAt(str, trm, p) THEN <<p>> \o MatchesFrom(str, trm, p + Len(trm))
    ELSE MatchesFrom(str, trm, p + 1)

FollowedByAlnum(str, trm, p) ==
    p + Len(trm) <= Len(str) /\ str[p + Len(trm)] \in AlnumClass

InsertedSpaces(str, trm, rpl, p) ==
    IF FollowedByAlnum(str, trm, p) /\ (rpl = << >> \/ rpl[Len(rpl)] # " ") THEN 1 ELSE 0

\* Where the replacement of the k-th match starts in the rewritten text
RECURSIVE OutStart(_, _, _, _, _)
OutStart(str, trm, rpl, ms, k) ==
    IF k = 1 THEN ms[1]
    ELSE OutStart(str, trm, rpl, ms, k - 1) + Len(rpl)
             + InsertedSpaces(str, trm, rpl, ms[k - 1]) + (ms[k] - ms[k - 1] - Len(trm))

\* At index q of out stands what the character at e of str has become: the
\* character, or the replacement of the match that starts at e
Stands(str, trm, rpl, ms, e, out, q) ==
    IF \E k \in 1..Len(ms) : ms[k] = e
    THEN q = OutStart(str, trm, rpl, ms, CHOOSE k \in 1..Len(ms) : ms[k] = e)
    ELSE q <= Len(out) /\ out[q] = str[e]

C3_SymbolSpacing ==
    (pc = "loop" /\ idx > 1 /\ ~IsWordTerm(term)) =>
        LET ms == MatchesFrom(string, term, 1)
        IN  \A k \in 1..Len(ms) :
                LET o == OutStart(string, term, repl, ms, k)
                    f == o + Len(repl)
                    e == ms[k] + Len(term)
                IN  /\ f - 1 <= Len(s)
                    /\ \A n \in 1..Len(repl) : s[o + n - 1] = repl[n]
                    /\ FollowedByAlnum(string, term, ms[k]) =>
                           IF repl # << >> /\ repl[Len(repl)] = " "
                           THEN Stands(string, term, repl, ms, e, s, f)
                           ELSE /\ f <= Len(s)
                                /\ s[f] = " "
                                /\ Stands(string, term, repl, ms, e, s, f + 1)

\* A turn has replaced a symbol term that an alphanumeric character follows
\* by a replacement that does not end in a space
C3_Witness ==
    /\ pc = "loop" /\ idx > 1 /\ ~IsWordTerm(term)
    /\ repl # << >> /\ repl[Len(repl)] # " "
    /\ \E p \in 1..Len(string) :
           LiteralAt(string, term, p) /\ FollowedByAlnum(string, term, p)
    /\ Len(term) > 1

(***************************************************************************)
(* SpecCase: calls on texts with letters of both cases, a digit, the space *)
(* and the tab; a replacement can bring in an upper-case letter or a tab.  *)
(***************************************************************************)
CaseTextLen == 4

CaseTermLen == 1

CaseReplLen == 1

CaseRules == 1

CaseTextChars == {"a", "A", "1", " ", "TAB"}

CaseTermChars == {"a"}

CaseReplChars == {"B", "TAB"}

InitCase ==
    Calls(SeqsUpTo(CaseTextChars, CaseTextLen),
          Rulesets(SeqsUpTo(CaseTermChars, CaseTermLen) \ {<< >>},
                   SeqsUpTo(CaseReplChars, CaseReplLen), CaseRules))

SpecCase == InitCase /\ [][Next]_vars

(***************************************************************************)
(* C4.  Whitespace of the output: for a non-empty text, the returned       *)
(* string has no whitespace at either end, no whitespace character other   *)
(* than the space, and no two spaces in a row.                             *)
(***************************************************************************)
C4_Whitespace ==
    (pc = "done" /\ text # << >>) =>
        /\ ret # << >> => (ret[1] \notin SpaceChars /\ ret[Len(ret)] \notin SpaceChars)
        /\ \A p \in 1..Len(ret) : ret[p] \in SpaceChars => ret[p] = " "
        /\ \A p \in 1..(Len(ret) - 1) : ~(ret[p] = " " /\ ret[p + 1] = " ")

\* Returned, not empty, from a text with a tab and two whitespace characters
\* in a row, after a replacement that brought in a tab
C4_Witness ==
    /\ pc = "done" /\ ret # << >>
    /\ \E p \in 1..Len(text) : text[p] = "TAB"
    /\ \E p \in 1..(Len(text) - 1) : text[p] \in SpaceChars /\ text[p + 1] \in SpaceChars
    /\ idx > 1 /\ Occurs(string, term)
    /\ \E p \in 1..Len(repl) : repl[p] = "TAB"

(***************************************************************************)
(* C5 as stated.  The exemption is decided by the original text: a maximal *)
(* alphanumeric token of the output is fully upper-case when that token,   *)
(* matched ignoring case, was a fully upper-case token of the text; any    *)
(* other token, one that a replacement brought in upper-case included, is  *)
(* re-cased: none of its letters is upper-case but the first letter of the *)
(* whole output.                                                           *)
(***************************************************************************)
\* The maximal alphanumeric tokens of str that hold a letter, as <<first, last>>
TokenSpans(str) ==
    {ab \in (1..Len(str)) \X (1..Len(str)) :
        /\ ab[1] <= ab[2]
        /\ \A m \in ab[1]..ab[2] : str[m] \in AlnumClass
        /\ (ab[1] = 1 \/ str[ab[1] - 1] \notin AlnumClass)
        /\ (ab[2] = Len(str) \/ str[ab[2] + 1] \notin AlnumClass)
        /\ \E m \in ab[1]..ab[2] : IsLetter(str[m])}

LetterTokens(str) == {SubSeq(str, ab[1], ab[2]) : ab \in TokenSpans(str)}

NoLowerLetter(w) == \A m \in 1..Len(w) : w[m] \notin LowerLetters

\* The text holds tok, up to letter case, as a token without a lower-case
\* letter (upper) or with one (not upper)
WasToken(tok, upper) ==
    \E u \in LetterTokens(text) : Fold(u) = Fold(tok) /\ (NoLowerLetter(u) <=> upper)

RECURSIVE WordsFrom(_, _)
WordsFrom(str, cur) ==
    IF str = << >> THEN (IF cur = << >> THEN << >> ELSE <<cur>>)
    ELSE IF Head(str) \in SpaceChars
         THEN (IF cur = << >> THEN << >> ELSE <<cur>>) \o WordsFrom(Tail(str), << >>)
         ELSE WordsFrom(Tail(str), Append(cur, Head(str)))

WordsOf(str) == WordsFrom(str, << >>)

UpperWord(w) == NoLowerLetter(w) /\ \E m \in 1..Len(w) : w[m] \in UpperLetters

UpChar(c) == CASE c = "a" -> "A" [] c = "b" -> "B" [] OTHER -> c

Cased(w, first) ==
    [m \in 1..Len(w) |->
        IF first /\ m = 1 THEN UpChar(IF UpperWord(w) THEN w[m] ELSE FoldChar(w[m]))
        ELSE IF UpperWord(w) THEN w[m] ELSE FoldChar(w[m])]

C6_EmptyRulesetExact ==
    (pc = "done" /\ replacements = << >>) => ret = Collapsed(text)

(***************************************************************************)
(* C6 as amended.  With the empty dict the returned string is the text     *)
(* with its whitespace collapsed and trimmed, up to letter case: no        *)
(* character is added or removed, and letters may be re-cased.             *)
(***************************************************************************)
C6_EmptyRulesetUpToCase ==
    (pc = "done" /\ replacements = << >>) => Fold(ret) = Fold(Collapsed(text))

\* Returned with the empty dict from a text with whitespace to collapse and
\* to trim, with a letter re-cased
C6_Witness ==
    /\ pc = "done" /\ replacements = << >>
    /\ text # << >> /\ text[1] \in SpaceChars
    /\ \E p \in 1..(Len(text) - 1) : text[p] \in SpaceChars /\ text[p + 1] \in SpaceChars
    /\ ret # Collapsed(text)

(***************************************************************************)
(* convert_xmls_to_excel.  An uploaded file is a record: name, kind        *)
(* ("empty": size 0; "malformed": ET.parse raises ParseError; "xml": it    *)
(* parses) and, for an xml file, apps, its App elements in document order. *)
(* An App is its PartType id ("" without one) and values, the texts of its *)
(* Note, Text and MfrLabel elements in the order notes + texts + labels.   *)
(***************************************************************************)
\* The rows extract_data_from_xml makes of one App
RECURSIVE AppRows(_, _, _)
AppRows(parttype_id, values, filename) ==
    IF values = << >> THEN << >>
    ELSE (IF Head(values) # << >> \/ parttype_id # << >>
          THEN <<[value |-> Head(values),
                  parttype_id |-> parttype_id,
                  source_file |-> filename,
                  key |-> parttype_id \o filename \o Head(values)]>>
          ELSE << >>)
         \o AppRows(parttype_id, Tail(values), filename)

RECURSIVE AppsRows(_, _)
AppsRows(apps, filename) ==
    IF apps = << >> THEN << >>
    ELSE AppRows(Head(apps).parttype_id, Head(apps).values, filename)
             \o AppsRows(Tail(apps), filename)

\* extract_data_from_xml(file, filename): the rows, [] on ParseError
ExtractData(file) ==
    IF file.kind = "xml" THEN AppsRows(file.apps, file.name) ELSE << >>

\* df.drop_duplicates(): a row identical to an earlier one is dropped
RECURSIVE DropDuplicates(_)
DropDuplicates(rows) ==
    IF rows = << >> THEN << >>
    ELSE LET front == DropDuplicates(SubSeq(rows, 1, Len(rows) - 1))
             last == rows[Len(rows)]
         IN  IF \E k \in 1..(Len(rows) - 1) : rows[k] = last THEN front
             ELSE Append(front, last)

\* progress = int(i / total_files * 100), i the files taken so far
Progress(n, total) == (n * 100) \div total

\* The for loop takes a file of size 0: st.warning, no extraction
TakeEmptyFile ==
    /\ fpc = "files"
    /\ i < Len(uploaded_files)
    /\ uploaded_files[i + 1].kind = "empty"
    /\ warned' = Append(warned, uploaded_files[i + 1].name)
    /\ i' = i + 1
    /\ progress' = Append(progress, Progress(i + 1, Len(uploaded_files)))
    /\ UNCHANGED <<uploaded_files, rules, fpc, all_data, failed, df>>
    /\ UNCHANGED cleanVars

\* The for loop takes a file ET.parse cannot parse: extract_data_from_xml
\* catches the ParseError, calls st.error and returns []
TakeMalformedFile ==
    /\ fpc = "files"
    /\ i < Len(uploaded_files)
    /\ uploaded_files[i + 1].kind = "malformed"
    /\ failed' = Append(failed, uploaded_files[i + 1].name)
    /\ all_data' = all_data \o ExtractData(uploaded_files[i + 1])
    /\ i' = i + 1
    /\ progress' = Append(progress, Progress(i + 1, Len(uploaded_files)))
    /\ UNCHANGED <<uploaded_files, rules, fpc, warned, df>>
    /\ UNCHANGED cleanVars

\* The for loop takes a file that parses: all_data.extend(data)
TakeXmlFile ==
    /\ fpc = "files"
    /\ i < Len(uploaded_files)
    /\ uploaded_files[i + 1].kind = "xml"
    /\ all_data' = all_data \o ExtractData(uploaded_files[i + 1])
    /\ i' = i + 1
    /\ progress' = Append(progress, Progress(i + 1, Len(uploaded_files)))
    /\ UNCHANGED <<uploaded_files, rules, fpc, warned, failed, df>>
    /\ UNCHANGED cleanVars

\* After the loop: without rows, return None; else the DataFrame, its
\* duplicates dropped, and the column of clean_text(value, replacements),
\* whose re.error, when a call raises, leaves convert_xmls_to_excel
BuildTable ==
    /\ fpc = "files"
    /\ i = Len(uploaded_files)
    /\ LET kept == DropDuplicates(all_data)
       IN  IF all_data = << >>
           THEN df' = << >> /\ fpc' = "returned"
           ELSE IF \E k \in 1..Len(kept) : CleanTextRaises(kept[k].value, rules)
           THEN df' = << >> /\ fpc' = "raised"
           ELSE /\ df' = [k \in 1..Len(kept) |->
                            [value |-> kept[k].value,
                             parttype_id |-> kept[k].parttype_id,
                             source_file |-> kept[k].source_file,
                             key |-> kept[k].key,
                             clean |-> CleanText(kept[k].value, rules)]]
                /\ fpc' = "returned"
    /\ UNCHANGED <<uploaded_files, rules, i, all_data, warned, failed, progress>>
    /\ UNCHANGED cleanVars

NextFiles ==
    \/ TakeEmptyFile
    \/ TakeMalformedFile
    \/ TakeXmlFile
    \/ BuildTable

MaxFiles == 2

MaxApps == 1

MaxValues == 2

FileNames == {<<"a">>, <<"b">>}

PartTypeIds == {<< >>, <<"1">>}

FieldTexts == {<< >>, <<"a">>}

FileDicts ==
    {<< >>,
     <<[term |-> <<"a">>, repl |-> <<"b">>]>>,
     <<[term |-> <<"a">>, repl |-> <<"BS">>]>>}

Files ==
    [name : FileNames, kind : {"empty", "malformed"}, apps : {<< >>}]
    \cup [name : FileNames, kind : {"xml"},
          apps : SeqsUpTo([parttype_id : PartTypeIds,
                           values : SeqsUpTo(FieldTexts, MaxValues)], MaxApps)]

InitFiles ==
    /\ uploaded_files \in SeqsUpTo(Files, MaxFiles)
    /\ rules \in FileDicts
    /\ fpc = "files"
    /\ i = 0
    /\ all_data = << >>
    /\ warned = << >>
    /\ failed = << >>
    /\ progress = << >>
    /\ df = << >>
    /\ NoCall

SpecFiles == InitFiles /\ [][NextFiles]_vars

(***************************************************************************)
(* C10.  Failure isolation across the uploaded files: the loop takes each  *)
(* file once, in order; an empty or unparsable file adds no row and is     *)
(* reported under its name; no file stops the loop; and once               *)
(* convert_xmls_to_excel has ended, every row extracted from a file that   *)
(* parses is a row of the table.                                           *)
(***************************************************************************)
\* The names of the files of the given kind among the first n, in order
NamesOfKind(kind, n) ==
    LET of == SelectSeq(SubSeq(uploaded_files, 1, n), LAMBDA f : f.kind = kind)
    IN  [k \in 1..Len(of) |-> of[k].name]

RECURSIVE RowsOfFirst(_)
RowsOfFirst(n) ==
    IF n = 0 THEN << >> ELSE RowsOfFirst(n - 1) \o ExtractData(uploaded_files[n])

\* The table holds the row
InTable(row) ==
    \E k \in 1..Len(df) :
        /\ df[k].value = row.value
        /\ df[k].parttype_id = row.parttype_id
        /\ df[k].source_file = row.source_file

\* The part of C10 about the loop: the files are taken once each, in order;
\* the empty and the unparsable ones are reported and add no row; the loop
\* has taken every file when the function ends
C10_LoopIsolation ==
    /\ fpc # "idle" =>
           /\ i <= Len(uploaded_files)
           /\ progress = [k \in 1..i |-> Progress(k, Len(uploaded_files))]
           /\ warned = NamesOfKind("empty", i)
           /\ failed = NamesOfKind("malformed", i)
           /\ all_data = RowsOfFirst(i)
    /\ fpc \in {"returned", "raised"} => i = Len(uploaded_files)

C10_FailureIsolation ==
    /\ C10_LoopIsolation
    /\ fpc \in {"returned", "raised"} =>
           \A n \in 1..Len(uploaded_files) :
               \A k \in 1..Len(ExtractData(uploaded_files[n])) :
                   InTable(ExtractData(uploaded_files[n])[k])

====
